---- MODULE Spec2Model ----
(***************************************************************************)
(* Verification model of the GeoTIFF tile-set model:                       *)
(*   - RetiledGeoTIFFImage (retiling adapter with its per-tile cache),      *)
(*   - GeoTiffTileSetModel.getTileData and the configuration mutators.      *)
(* Four specifications share the module: SpecRetile (calls on the adapter), *)
(* SpecIndex (its index over several image sizes), SpecTile (tile requests, *)
(* their reads and the cancellation token) and SpecConfig (tile requests    *)
(* and the mutators).                                                       *)
(***************************************************************************)
EXTENDS Integers, Sequences, FiniteSets, TLC

\* ------------------------------------------------------------------ bounds
\* Number of getTileOrStrip calls made on one adapter.
MaxCalls == 3
\* Number of getTileData requests made on one model.
MaxRequests == 2
\* Number of mutator calls (setGradient, setBandMapping, setNodata).
MaxSetterCalls == 2

\* ------------------------------------------------------- JavaScript values
Undefined == "undefined"
Null == "null"

Min(a, b) == IF a < b THEN a ELSE b

\* Math.ceil(a / b) for positive integers: the least n with n * b >= a.
CeilDiv(a, b) == CHOOSE n \in 0..a : n * b >= a /\ (n = 0 \/ (n - 1) * b < a)

RECURSIVE Log2Floor(_)
\* Math.floor(Math.log2(n)) for n >= 1.
Log2Floor(n) == IF n < 2 THEN 0 ELSE 1 + Log2Floor(n \div 2)

RECURSIVE Pow2(_)
\* Math.pow(2, k) for k >= 0.
Pow2(k) == IF k = 0 THEN 1 ELSE 2 * Pow2(k - 1)

\* =========================================================================
\*  RetiledGeoTIFFImage
\* =========================================================================
VARIABLES
  imageWidth,            \* image.getWidth() of the wrapped image
  imageHeight,           \* image.getHeight()
  samplesPerPixel,       \* getSamplesPerPixel()
  planarConfiguration,   \* 1 = chunky, 2 = planar
  tileSize,              \* this._tileSize
  tileCache,             \* this._tileCache : index -> tile
  callerSignal,          \* the AbortSignal the caller hands to its calls
  calls,                 \* the getTileOrStrip invocations, by call number
  rasterReads            \* the readRasters invocations on the wrapped image

retileVars == <<imageWidth, imageHeight, samplesPerPixel, planarConfiguration,
                tileSize, tileCache, callerSignal, calls, rasterReads>>

VARIABLES
  image,           \* this._images[level]: the metadata getTileData reads
  maskImage,       \* this._maskImages[level], Null when the level has none
  dataType,        \* this.dataType
  _nodata,         \* this._nodata
  bandMapping,     \* this.bandMapping
  colorMap,        \* this.colorMap
  nativeRange,     \* this.nativeRange
  _transformation, \* this._transformation
  invalidateCount, \* number of invalidate() calls
  setterCalls,     \* number of setter calls made
  lastCall,        \* the latest setter call and its arguments
  requests,        \* the getTileData requests and their promise chains
  tileReads,       \* reads issued by the requests
  aborted          \* whether the cancellation token has been aborted

tileVars == <<image, maskImage, dataType, _nodata, bandMapping, colorMap,
              nativeRange, _transformation, invalidateCount, setterCalls,
              lastCall, requests, tileReads, aborted>>

VARIABLES
  raw,             \* the samples handed to a converter
  options,         \* the options handed with them
  converter,       \* the converter applied, "none" before
  converted,       \* the bytes the converter returned
  geometry,        \* the tile, its grid and its image
  rawMask,         \* the result of the mask read, NoMask without a mask image
  stripStage,      \* how far the tile is through conversion, masking, clipping
  tileData,        \* the converted buffer and the pixel format given to it
  masked,          \* what stripPixelsByMask returned
  clipped,         \* what stripPixelsOutsideImageArea returned
  fileImages,      \* the images of the file createFromURL opened
  level,           \* the index of the next image createFromURL reads
  images,          \* createFromURL's `images`
  maskImages,      \* createFromURL's `maskImages`
  tileMatrix       \* createFromURL's `tileMatrix`

stripVars == <<geometry, rawMask, stripStage, tileData, masked, clipped>>
levelVars == <<fileImages, level, images, maskImages, tileMatrix>>
pureVars == <<raw, options, converter, converted, stripVars, levelVars>>

\* Sizes of the wrapped (untiled) image: <<width, height>>.
ImageSizes == {<<3, 3>>}
\* The tokens a caller may pass as `signal`.
Signals == {Undefined, "signal"}

CallIds == 1..MaxCalls

calculateNewTileSizeUncapped(imageSize) == Pow2(Log2Floor(imageSize))
\* const calculateNewTileSize = (imageSize) => Math.min(512, 2^floor(log2(imageSize)))
calculateNewTileSize(imageSize) == Min(512, Pow2(Log2Floor(imageSize)))

\* this._tileSize = Math.min(possibleNewTileWidth, possibleNewTileHeight)
NewTileSize(w, h) == Min(calculateNewTileSize(w), calculateNewTileSize(h))

getTileWidth == tileSize
getTileHeight == tileSize

numTilesPerRow == CeilDiv(imageWidth, getTileWidth)
numTilesPerCol == CeilDiv(imageHeight, getTileHeight)

\* The value of `let index: number` while it is unassigned.
UndefinedIndex == -1

\* Mutants of TileIndex: the row term dropped; the sample plane dropped; the
\* row stride taken from the column count.
TileIndexNoRow(x, y, sample) ==
  IF planarConfiguration = 1 THEN x
  ELSE IF planarConfiguration = 2
       THEN (sample * numTilesPerRow * numTilesPerCol) + x
       ELSE UndefinedIndex

TileIndexNoSample(x, y, sample) ==
  IF planarConfiguration \in {1, 2} THEN (y * numTilesPerRow) + x ELSE UndefinedIndex

TileIndexColStride(x, y, sample) ==
  IF planarConfiguration = 1 THEN (y * numTilesPerCol) + x
  ELSE IF planarConfiguration = 2
       THEN (sample * numTilesPerRow * numTilesPerCol) + (y * numTilesPerCol) + x
       ELSE UndefinedIndex

\* The synthetic cache index; `index` stays unassigned (undefined) when the
\* planar configuration is neither 1 nor 2.
TileIndex(x, y, sample) ==
  IF planarConfiguration = 1 THEN (y * numTilesPerRow) + x
  ELSE IF planarConfiguration = 2
       THEN (sample * numTilesPerRow * numTilesPerCol) + (y * numTilesPerRow) + x
       ELSE UndefinedIndex

\* The tile a call has not (yet) been given.
NoTile == [x |-> -1, y |-> -1, sample |-> -1, data |-> <<>>, id |-> 0]

\* Mutant of TileCacheGet: the lookup always misses.
TileCacheGetMiss(index) == NoTile

\* this._tileCache.get(index); NoTile stands for the undefined of a miss.
TileCacheGet(index) ==
  IF index \in DOMAIN tileCache THEN tileCache[index] ELSE NoTile

\* window = [offX, offY, offX + tileWidth, offY + tileHeight]
TileWindow(x, y) ==
  <<getTileWidth * x, getTileHeight * y,
    getTileWidth * x + getTileWidth, getTileHeight * y + getTileHeight>>

\* samples / interleave of the windowed read.
ReadSamples(sample) ==
  IF planarConfiguration = 1
  THEN [i \in 1..samplesPerPixel |-> i - 1]
  ELSE <<sample>>

ReadInterleave == planarConfiguration = 1

\* Content of the wrapped image: the 16-bit sample of band s at pixel
\* (px, py); a window reaching past the image is filled with 0.
PixelValue(px, py, s) ==
  IF px < imageWidth /\ py < imageHeight
  THEN ((py * imageWidth + px) * 37 + s * 101 + 1) % 65536
  ELSE 0

\* One band-interleaved (or single-band) array of the samples of a window.
WindowSamples(window, samples) ==
  LET w == window[3] - window[1]
      h == window[4] - window[2]
      n == Len(samples)
  IN  [i \in 1..(w * h * n) |->
         LET k == i - 1
             p == k \div n
         IN  PixelValue(window[1] + (p % w), window[2] + (p \div w),
                        samples[(k % n) + 1])]

\* this._image.readRasters({window, samples, interleave}): one typed array
\* when interleaved, else an array with one typed array per sample.
readRasters(window, samples, interleave) ==
  IF interleave
  THEN [isArray |-> FALSE, value |-> WindowSamples(window, samples)]
  ELSE [isArray |-> TRUE,
        value |-> [j \in 1..Len(samples) |-> WindowSamples(window, <<samples[j]>>)]]

\* const data = Array.isArray(dataResult) ? dataResult[0] : dataResult
FirstArray(dataResult) ==
  IF dataResult.isArray THEN dataResult.value[1] ELSE dataResult.value

\* new ArrayBuffer(data.length); new Uint8Array(arrayBuffer).set(data):
\* one byte per element, each element stored modulo 256.
ToArrayBuffer(data) == [i \in 1..Len(data) |-> data[i] % 256]

\* const tile = {x, y, sample, data: arrayBuffer}; `id` is the identity of
\* the object, the number of the call that created it.
ReadOf(c) == CHOOSE rd \in rasterReads : rd.call = c

\* The reads with the read of call c settled as `status`.
SettleRead(c, status) ==
  (rasterReads \ {ReadOf(c)}) \cup {[ReadOf(c) EXCEPT !.status = status]}

NewTile(c) ==
  LET r == ReadOf(c)
  IN  [x |-> calls[c].x, y |-> calls[c].y, sample |-> calls[c].sample,
       data |-> ToArrayBuffer(FirstArray(readRasters(r.window, r.samples, r.interleave))),
       id |-> c]

IdleCall == [pc |-> "idle", x |-> 0, y |-> 0, sample |-> 0, signal |-> Undefined,
             index |-> UndefinedIndex, result |-> NoTile]

\* The adapter after construction.
\* getTileOrStrip up to its await: the index, the cache lookup and, on a
\* miss, the windowed read of the wrapped image.
GetTileOrStrip(c, x, y, sample, signal) ==
  /\ calls[c].pc = "idle"
  /\ IF c = 1 THEN TRUE ELSE calls[c - 1].pc # "idle"
  /\ LET index == TileIndex(x, y, sample)
         cachedTile == TileCacheGet(index)
         started == [calls[c] EXCEPT !.x = x, !.y = y, !.sample = sample,
                                     !.signal = signal, !.index = index]
     IN  IF cachedTile # NoTile
         THEN /\ calls' = [calls EXCEPT ![c] =
                             [started EXCEPT !.pc = "resolved", !.result = cachedTile]]
              /\ UNCHANGED rasterReads
         ELSE /\ calls' = [calls EXCEPT ![c] = [started EXCEPT !.pc = "reading"]]
              /\ rasterReads' = rasterReads \cup
                   {[call |-> c, window |-> TileWindow(x, y),
                     samples |-> ReadSamples(sample),
                     interleave |-> ReadInterleave, signal |-> signal,
                     status |-> "pending"]}
  /\ UNCHANGED <<imageWidth, imageHeight, samplesPerPixel, planarConfiguration,
                 tileSize, tileCache, callerSignal, tileVars, pureVars>>

\* Mutant of TileCacheOnReadError: the failure is cached as an empty tile.
TileCacheOnReadErrorStored(c) ==
  (calls[c].index :> [NoTile EXCEPT !.id = c]) @@ tileCache

\* The cache when the awaited read rejects: the await rethrows before the
\* tile is built, so nothing is stored.
TileCacheOnReadError(c) == tileCache

\* The awaited read resolves: the tile is built, stored and returned.
ReadRastersResolves(c) ==
  /\ calls[c].pc = "reading"
  /\ LET tile == NewTile(c)
     IN  /\ tileCache' = (calls[c].index :> tile) @@ tileCache
         /\ calls' = [calls EXCEPT ![c].pc = "resolved", ![c].result = tile]
  /\ rasterReads' = SettleRead(c, "resolved")
  /\ UNCHANGED <<imageWidth, imageHeight, samplesPerPixel, planarConfiguration,
                 tileSize, callerSignal, tileVars, pureVars>>

\* The awaited read rejects: getTileOrStrip rejects with the same error.
ReadRastersRejects(c) ==
  /\ calls[c].pc = "reading"
  /\ tileCache' = TileCacheOnReadError(c)
  /\ calls' = [calls EXCEPT ![c].pc = "rejected"]
  /\ rasterReads' = SettleRead(c, "rejected")
  /\ UNCHANGED <<imageWidth, imageHeight, samplesPerPixel, planarConfiguration,
                 tileSize, callerSignal, tileVars, pureVars>>

RetileNext ==
  \/ \E c \in CallIds, x \in 0..(numTilesPerRow - 1), y \in 0..(numTilesPerCol - 1),
        sample \in 0..(samplesPerPixel - 1) :
       GetTileOrStrip(c, x, y, sample, callerSignal)
  \/ \E c \in CallIds : ReadRastersResolves(c)
  \/ \E c \in CallIds : ReadRastersRejects(c)

\* ---- the index as a function of the image geometry ----------------------
\* Image sizes for the index computation, among them grids of 4 columns.
IndexImageSizes ==
  {<<7, 3>>, <<8, 3>>, <<5, 3>>, <<3, 3>>, <<9, 4>>, <<6, 13>>, <<1, 5>>, <<1100, 2100>>}

\* One getTileOrStrip call on a fresh adapter, for every tile of the grid.
IndexNext ==
  \E x \in 0..(numTilesPerRow - 1), y \in 0..(numTilesPerCol - 1),
     sample \in 0..(samplesPerPixel - 1) :
       GetTileOrStrip(1, x, y, sample, callerSignal)

\* The adapter left out of a specification: one untouched 1 x 1 image.
RetileAbsent ==
  /\ imageWidth = 1 /\ imageHeight = 1 /\ tileSize = 1
  /\ samplesPerPixel = 1 /\ planarConfiguration = 1
  /\ tileCache = <<>> /\ callerSignal = Undefined
  /\ calls = [c \in CallIds |-> IdleCall]
  /\ rasterReads = {}

\* =========================================================================
\*  GeoTiffTileSetModel: getTileData and the setters
\* =========================================================================
\* JavaScript values that may be undefined, null or a number.
JsUndefined == [t |-> "undefined", v |-> 0]
JsNull == [t |-> "null", v |-> 0]
JsNumber(n) == [t |-> "number", v |-> n]

isNumber(value) == value.t = "number"

ELEVATION == "ELEVATION"
IMAGE == "IMAGE"

\* Metadata of the images a model is built on: one 8-bit, one 16-bit, one
\* 32-bit float and one 32-bit integer single band image, an 8-bit RGB image,
\* two-band images of 16 and of 12 bits, and a three-band 8-bit YCbCr image.
ImageKinds ==
  { [samplesPerPixel |-> 1, bitsPerSample |-> 8,  bytesPerPixel |-> 1, photometric |-> 1, sampleFormat |-> 1],
    [samplesPerPixel |-> 1, bitsPerSample |-> 16, bytesPerPixel |-> 2, photometric |-> 1, sampleFormat |-> 1],
    [samplesPerPixel |-> 1, bitsPerSample |-> 32, bytesPerPixel |-> 4, photometric |-> 1, sampleFormat |-> 3],
    [samplesPerPixel |-> 1, bitsPerSample |-> 32, bytesPerPixel |-> 4, photometric |-> 1, sampleFormat |-> 1],
    [samplesPerPixel |-> 3, bitsPerSample |-> 8,  bytesPerPixel |-> 3, photometric |-> 2, sampleFormat |-> 1],
    [samplesPerPixel |-> 2, bitsPerSample |-> 16, bytesPerPixel |-> 4, photometric |-> 1, sampleFormat |-> 1],
    [samplesPerPixel |-> 2, bitsPerSample |-> 12, bytesPerPixel |-> 3, photometric |-> 1, sampleFormat |-> 1],
    [samplesPerPixel |-> 3, bitsPerSample |-> 8,  bytesPerPixel |-> 3, photometric |-> 6, sampleFormat |-> 1] }

GdalNoDataValues == {JsNull, JsNumber(0)}

isFloat32Data(img) == img.sampleFormat = 3 /\ img.bitsPerSample = 32

PixelMeaning(img) ==
  LET spp == img.samplesPerPixel
      bits == img.bitsPerSample
      bpp == img.bytesPerPixel
      isRGB == img.photometric = 2
      single == IF spp = 1 /\ bits = 8 /\ bpp = 1 THEN "Grayscale8"
                ELSE IF spp = 1 /\ bits = 16 /\ bpp = 2 THEN "Grayscale16"
                ELSE IF spp = 1 /\ bits = 32 /\ bpp = 4 THEN "Grayscale32"
                ELSE "Unknown"
      three == IF spp = 3 /\ isRGB /\ bits = 8 /\ bpp = 3 THEN "RGB"
               ELSE IF spp = 3 /\ isRGB /\ bits = 32 /\ bpp = 12 THEN "RGB96"
               ELSE single
      four == IF spp = 4 /\ isRGB /\ bits = 8 /\ bpp = 4 THEN "RGBA" ELSE three
  IN  IF spp > 1 /\ four = "Unknown" THEN "Multiband" ELSE four

PixelFormatOf(img) ==
  LET spp == img.samplesPerPixel
      bits == img.bitsPerSample
      bpp == img.bytesPerPixel
  IN  IF spp = 3 /\ bits = 8 /\ bpp = 3 THEN "RGB_888"
      ELSE IF spp = 4 /\ bits = 8 /\ bpp = 4 THEN "RGBA_8888"
      ELSE IF spp = 1 /\ bits = 16 /\ bpp = 2 THEN "USHORT"
      ELSE IF spp = 1 /\ bits = 32 /\ bpp = 4
           THEN (IF isFloat32Data(img) THEN "FLOAT_32" ELSE "UINT_32")
           ELSE Null

analyzePixelFormat(img) == [meaning |-> PixelMeaning(img), format |-> PixelFormatOf(img)]

\* The fields the constructor derives from images[0].
_pixelFormat == analyzePixelFormat(image.kind).format
_pixelFormatMeaning == analyzePixelFormat(image.kind).meaning
_bandsNumber == image.kind.samplesPerPixel
_bitsPerSample == image.kind.bitsPerSample

\* A range bound 2^pow2 + plus, kept unevaluated: 2^32 is beyond the
\* integers the model checker computes with.
Bound(pow2, plus) == [pow2 |-> pow2, plus |-> plus]

\* {min: 0, max: Math.pow(2, bits) - 1}, the constructor's range.
ConstructorRange(bits) == [min |-> 0, max |-> Bound(bits, -1)]
\* {min: 0, max: Math.pow(2, bits)}, the range setGradient(null) installs.
ResetRange(bits) == [min |-> 0, max |-> Bound(bits, 0)]

GrayscaleGradient == "GrayscaleGradient"
DefaultBandMapping == [red |-> 0, green |-> 0, blue |-> 0, gray |-> 0, rgb |-> FALSE]

\* The value-to-colour function built from a colour map.
TransformToGradientColorMap(cm) == [transformationOf |-> cm]

getGradient == [colorMap |-> colorMap, range |-> nativeRange]
getBandMapping == bandMapping
getNodata == _nodata

RequestIds == 1..MaxRequests
TileOf(r) == [level |-> 0, x |-> r - 1, y |-> 0]
Unused == [unused |-> TRUE]
NoUse == [nodata |-> Unused, transformation |-> Unused, nativeRange |-> Unused,
          bandMapping |-> Unused]
NoSnapshot == [colorMap |-> Null, transformation |-> Unused, nativeRange |-> Unused,
               bandMapping |-> Unused, nodata |-> JsUndefined]
IdleRequest ==
  [pc |-> "idle", branch |-> Null, signal |-> Null, nodata |-> JsUndefined,
   rejection |-> Null, onSuccess |-> 0, onError |-> <<>>, used |-> NoUse,
   atRequest |-> NoSnapshot, stale |-> FALSE]
NoCall == [op |-> Null, arg |-> JsNull, invalidate |-> FALSE]

\* No conversion under way.
StripAbsent ==
  /\ geometry = [tileWidth |-> 0]
  /\ rawMask = [present |-> FALSE, samples |-> <<>>]
  /\ stripStage = "none"
  /\ tileData = [data |-> <<>>, pixelFormat |-> "none"]
  /\ masked = [data |-> <<>>, pixelFormat |-> "none"]
  /\ clipped = [data |-> <<>>, pixelFormat |-> "none"]

LevelAbsent ==
  /\ fileImages = <<>>
  /\ level = -1
  /\ images = <<>>
  /\ maskImages = <<>>
  /\ tileMatrix = <<>>

ConvertAbsent ==
  /\ raw = <<>>
  /\ options = [bits |-> 8]
  /\ converter = "none"
  /\ converted = <<>>

PureAbsent == ConvertAbsent /\ StripAbsent /\ LevelAbsent

TileInit ==
  /\ \E kind \in ImageKinds, gdalNoData \in GdalNoDataValues :
       image = [kind |-> kind, gdalNoData |-> gdalNoData]
  /\ maskImage \in {Null, "maskImage"}
  /\ dataType \in {IMAGE, ELEVATION}
  /\ _nodata = JsUndefined
  /\ bandMapping = DefaultBandMapping
  /\ colorMap = GrayscaleGradient
  /\ nativeRange = ConstructorRange(image.kind.bitsPerSample)
  /\ _transformation = TransformToGradientColorMap(GrayscaleGradient)
  /\ invalidateCount = 0
  /\ setterCalls = 0
  /\ lastCall = NoCall
  /\ requests = [r \in RequestIds |-> IdleRequest]
  /\ tileReads = {}
  /\ aborted = FALSE
  /\ RetileAbsent
  /\ PureAbsent

\* The nodata value a request works with: this._nodata unless undefined,
\* else the image's GDAL nodata.
RequestNodataGdalOnly == image.gdalNoData
RequestNodata == IF _nodata.t # "undefined" THEN _nodata ELSE image.gdalNoData

\* The branch of getTileData a request takes; "throw" is the elevation
\* branch's else.
Branch ==
  IF dataType = ELEVATION /\ _bandsNumber = 1
  THEN (IF _pixelFormat \in {"FLOAT_32", "UINT_32"} THEN "elevation" ELSE "throw")
  ELSE IF _bandsNumber = 1 THEN "singleband"
  ELSE IF _bandsNumber > 1 /\ _pixelFormatMeaning = "Multiband" THEN "multiband"
  ELSE "rgb"

\* The reads a branch issues for request r: the elevation branch reads the
\* raster only, the others read the raster and, when the level has a mask
\* image, the mask.
IssuedReads(r, branch, signal) ==
  { [req |-> r, of |-> "raster", signal |-> signal, status |-> "pending"] }
  \cup (IF branch # "elevation" /\ maskImage # Null
        THEN { [req |-> r, of |-> "mask", signal |-> signal, status |-> "pending"] }
        ELSE {})

ReadsOf(r) == {rd \in tileReads : rd.req = r}

\* Promise.all of the reads of request r is fulfilled.
AllFulfilledRasterOnly(r) ==
  \E rd \in ReadsOf(r) : rd.of = "raster" /\ rd.status = "fulfilled"
AllFulfilled(r) == \A rd \in ReadsOf(r) : rd.status = "fulfilled"

\* Whether the promise chain of a branch ends in a catch.
HasCatch(branch) == branch # "multiband"

\* Whether the conversion of a branch throws: the multiband converter has a
\* typed array for 8, 16 and 32 bits only and writes into undefined otherwise.
ConversionThrows(branch) ==
  branch = "multiband" /\ image.kind.bitsPerSample \notin {8, 16, 32}

\* What the conversion of a branch is given of the configuration.
UsedConfig(branch, nodata) ==
  IF branch = "singleband"
  THEN IF _bitsPerSample = 32 /\ _pixelFormat = "FLOAT_32"
       THEN [NoUse EXCEPT !.nodata = nodata, !.transformation = _transformation]
       ELSE [NoUse EXCEPT !.nodata = nodata, !.transformation = _transformation,
                          !.nativeRange = nativeRange]
  ELSE IF branch = "multiband"
  THEN [nodata |-> nodata, transformation |-> _transformation,
        nativeRange |-> nativeRange, bandMapping |-> bandMapping]
  ELSE [NoUse EXCEPT !.nodata = nodata]

Snapshot == [colorMap |-> colorMap, transformation |-> _transformation,
             nativeRange |-> nativeRange, bandMapping |-> bandMapping,
             nodata |-> _nodata]

configVars == <<_nodata, bandMapping, colorMap, nativeRange, _transformation,
                invalidateCount, setterCalls, lastCall>>
imageVars == <<image, maskImage, dataType>>

\* getTileData up to its return: the nodata value, the branch, the reads
\* and the promise chain; the elevation branch throws on other formats.
GetTileData(r, signal) ==
  /\ requests[r].pc = "idle"
  /\ IF r = 1 THEN TRUE ELSE requests[r - 1].pc # "idle"
  /\ LET branch == Branch
         started == [requests[r] EXCEPT !.branch = branch, !.signal = signal,
                                        !.nodata = RequestNodata,
                                        !.atRequest = Snapshot]
     IN  IF branch = "throw"
         THEN /\ requests' = [requests EXCEPT ![r] = [started EXCEPT !.pc = "thrown"]]
              /\ UNCHANGED tileReads
         ELSE /\ requests' = [requests EXCEPT ![r] = [started EXCEPT !.pc = "waiting"]]
              /\ tileReads' = tileReads \cup IssuedReads(r, branch, signal)
  /\ UNCHANGED <<imageVars, configVars, aborted, retileVars, pureVars>>

\* A read delivers its samples.
ReadFulfills(rd) ==
  /\ rd \in tileReads /\ rd.status = "pending"
  /\ tileReads' = (tileReads \ {rd}) \cup {[rd EXCEPT !.status = "fulfilled"]}
  /\ UNCHANGED <<imageVars, configVars, requests, aborted, retileVars, pureVars>>

\* A read fails; the first failure rejects the Promise.all of its request.
ReadRejects(rd) ==
  /\ rd \in tileReads /\ rd.status = "pending"
  /\ tileReads' = (tileReads \ {rd}) \cup {[rd EXCEPT !.status = "rejected"]}
  /\ requests' = [requests EXCEPT ![rd.req].rejection =
                    IF @ = Null THEN rd.of \o "ReadError" ELSE @]
  /\ UNCHANGED <<imageVars, configVars, aborted, retileVars, pureVars>>

\* The then callback of a request: conversion, compositing and onSuccess.
\* An error thrown by the conversion, or by the caller's onSuccess, rejects
\* the promise of the then and goes to the catch when there is one.
PromiseFulfilled(r, onSuccessThrows) ==
  /\ requests[r].pc = "waiting"
  /\ AllFulfilled(r)
  /\ LET branch == requests[r].branch
         delivered == [requests[r] EXCEPT !.onSuccess = @ + 1,
                                          !.used = UsedConfig(branch, requests[r].nodata)]
     IN  requests' = [requests EXCEPT ![r] =
           IF ConversionThrows(branch)
           THEN IF HasCatch(branch)
                THEN [@ EXCEPT !.pc = "error",
                               !.onError = Append(@, <<TileOf(r), "TypeError">>)]
                ELSE [@ EXCEPT !.pc = "unhandled"]
           ELSE IF ~onSuccessThrows THEN [delivered EXCEPT !.pc = "success"]
           ELSE IF HasCatch(branch)
                THEN [delivered EXCEPT !.pc = "error",
                                       !.onError = Append(@, <<TileOf(r), "CallbackError">>)]
                ELSE [delivered EXCEPT !.pc = "unhandled"]]
  /\ UNCHANGED <<imageVars, configVars, tileReads, aborted, retileVars, pureVars>>

\* The rejection of a request's Promise.all reaches the catch callback, or
\* nothing when the chain has no catch.
PromiseRejected(r) ==
  /\ requests[r].pc = "waiting"
  /\ requests[r].rejection # Null
  /\ requests' = [requests EXCEPT ![r] =
       IF HasCatch(requests[r].branch)
       THEN [@ EXCEPT !.pc = "error",
                      !.onError = Append(@, <<TileOf(r), requests[r].rejection>>)]
       ELSE [@ EXCEPT !.pc = "unhandled"]]
  /\ UNCHANGED <<imageVars, configVars, tileReads, aborted, retileVars, pureVars>>

\* The caller aborts the cancellation token.
Abort ==
  /\ ~aborted
  /\ \E r \in RequestIds : requests[r].pc # "idle" /\ requests[r].signal # Null
  /\ aborted' = TRUE
  /\ UNCHANGED <<imageVars, configVars, requests, tileReads, retileVars, pureVars>>



\* ---- the setters --------------------------------------------------------
UserRange == [min |-> 10, max |-> Bound(7, 72)]

\* The levels of the stops of a colour map, in ten-thousandths: the grayscale
\* gradient of the source, a well-formed list a caller supplies, and lists
\* that start above 0, end below 1 or do not ascend.
StopLevels(cm) ==
  IF cm = GrayscaleGradient
  THEN <<0, 667, 1333, 2000, 2667, 3333, 4000, 4667, 5333, 6000, 6667, 7333,
         8000, 8667, 9333, 10000>>
  ELSE IF cm = "RainbowGradient" THEN <<0, 5000, 10000>>
  ELSE IF cm = "StartsAboveZero" THEN <<2000, 10000>>
  ELSE IF cm = "EndsBelowOne" THEN <<0, 8000>>
  ELSE <<0, 7000, 3000, 10000>>

IllFormedColorMaps == {"StartsAboveZero", "EndsBelowOne", "NotAscending"}

\* Whether createGradientColorMap throws. The function belongs to a library
\* outside the repository: it accepts the well-formed lists, and what it does
\* with another list is left open.
CreateGradientColorMapThrows(cm) ==
  IF cm \in IllFormedColorMaps THEN BOOLEAN ELSE {FALSE}

GradientArgs ==
  {JsNull}
  \cup {[colorMap |-> "RainbowGradient", range |-> range] :
          range \in {JsUndefined, UserRange}}
  \cup {[colorMap |-> cm, range |-> JsUndefined] : cm \in IllFormedColorMaps}
BandMappingArgs == {JsNull, [red |-> 0, green |-> 1, blue |-> 1, gray |-> 1, rgb |-> TRUE]}
NodataArgs == {JsNumber(0), JsNumber(7)}

\* What every setter call leaves behind for the record: the call counted and
\* remembered, the requests still waiting marked as overtaken by a change.
NoteCall(op, arg, invalidate) ==
  /\ setterCalls < MaxSetterCalls
  /\ setterCalls' = setterCalls + 1
  /\ lastCall' = [op |-> op, arg |-> arg, invalidate |-> invalidate]
  /\ requests' = [r \in RequestIds |->
       IF requests[r].pc = "waiting" THEN [requests[r] EXCEPT !.stale = TRUE]
       ELSE requests[r]]

\* if (invalidate) this.invalidate()
Invalidate(invalidate) == IF invalidate THEN invalidateCount + 1 ELSE invalidateCount

\* setGradient; this.colorMap is assigned before createGradientColorMap is
\* called, and a throw of that call ends setGradient there.
SetGradient(gradient, invalidate) ==
  /\ \E throws \in (IF gradient # JsNull
                     THEN CreateGradientColorMapThrows(gradient.colorMap)
                     ELSE {FALSE}) :
       /\ NoteCall(IF throws THEN "setGradientThrew" ELSE "setGradient",
                   gradient, invalidate)
       /\ IF gradient # JsNull
          THEN /\ colorMap' = gradient.colorMap
               /\ _transformation' =
                    IF throws THEN _transformation
                    ELSE TransformToGradientColorMap(gradient.colorMap)
               /\ nativeRange' =
                    IF ~throws /\ gradient.range # JsUndefined THEN gradient.range
                    ELSE nativeRange
          ELSE /\ colorMap' = GrayscaleGradient
               /\ nativeRange' = ResetRange(_bitsPerSample)
               /\ _transformation' = TransformToGradientColorMap(GrayscaleGradient)
       /\ invalidateCount' = IF throws THEN invalidateCount ELSE Invalidate(invalidate)
  /\ UNCHANGED <<imageVars, _nodata, bandMapping, tileReads, aborted, retileVars, pureVars>>

SetBandMapping(mapping, invalidate) ==
  /\ NoteCall("setBandMapping", mapping, invalidate)
  /\ bandMapping' = IF mapping # JsNull THEN mapping ELSE DefaultBandMapping
  /\ invalidateCount' = Invalidate(invalidate)
  /\ UNCHANGED <<imageVars, _nodata, colorMap, nativeRange, _transformation,
                 tileReads, aborted, retileVars, pureVars>>

SetNodata(nodata, invalidate) ==
  /\ NoteCall("setNodata", nodata, invalidate)
  /\ _nodata' = nodata
  /\ invalidateCount' = Invalidate(invalidate)
  /\ UNCHANGED <<imageVars, bandMapping, colorMap, nativeRange, _transformation,
                 tileReads, aborted, retileVars, pureVars>>

TileSignals == {Null, "signal"}

TileNext ==
  \/ \E r \in RequestIds, signal \in TileSignals : GetTileData(r, signal)
  \/ \E rd \in tileReads : ReadFulfills(rd)
  \/ \E rd \in tileReads : ReadRejects(rd)
  \/ \E r \in RequestIds, onSuccessThrows \in BOOLEAN : PromiseFulfilled(r, onSuccessThrows)
  \/ \E r \in RequestIds : PromiseRejected(r)
  \/ Abort

\* Requests and setter calls on a model whose levels have no mask image and
\* whose callers' onSuccess returns normally.
ConfigInit == TileInit /\ maskImage = Null

ConfigNext ==
  \/ \E r \in RequestIds : GetTileData(r, Null)
  \/ \E rd \in tileReads : ReadFulfills(rd)
  \/ \E rd \in tileReads : ReadRejects(rd)
  \/ \E r \in RequestIds : PromiseFulfilled(r, FALSE)
  \/ \E r \in RequestIds : PromiseRejected(r)
  \/ \E gradient \in GradientArgs, invalidate \in BOOLEAN : SetGradient(gradient, invalidate)
  \/ \E mapping \in BandMappingArgs, invalidate \in BOOLEAN : SetBandMapping(mapping, invalidate)
  \/ \E nodata \in NodataArgs, invalidate \in BOOLEAN : SetNodata(nodata, invalidate)

\* =========================================================================
\*  The converters: bitstorgb and bandstorgb
\* =========================================================================
\* Fractions (normalized values, gradient levels, float samples) are counted
\* in ten-thousandths.
Unit == 10000

\* A band index beyond the bands of a pixel reads undefined.
UndefinedSample == -1000000

BoundValue(bound) == Pow2(bound.pow2) + bound.plus

\* The colours of the stops of a colour map.
StopColours(cm) ==
  IF cm = GrayscaleGradient
  THEN [i \in 1..16 |-> <<17 * (i - 1), 17 * (i - 1), 17 * (i - 1)>>]
  ELSE [i \in 1..Len(StopLevels(cm)) |-> <<255 * (i % 2), 128, 255 * ((i + 1) % 2)>>]

\* ColorMap.retrieveColor: the colour interpolated between the two stops
\* around x, x taken into the span of the levels.
retrieveColor(cm, x) ==
  LET levels == StopLevels(cm)
      colours == StopColours(cm)
      last == Len(levels)
      n == IF x < levels[1] THEN levels[1] ELSE IF x > levels[last] THEN levels[last] ELSE x
      i == CHOOSE k \in 1..(last - 1) :
             n <= levels[k + 1] /\ \A m \in 1..(k - 1) : n > levels[m + 1]
  IN  [c \in 1..3 |->
         colours[i][c]
           + ((n - levels[i]) * (colours[i + 1][c] - colours[i][c]))
               \div (levels[i + 1] - levels[i])]

\* options.transformation ? options.transformation(x) : GrayScaleTransformation(x)
Transformation(transformation, x) ==
  IF transformation = JsUndefined THEN retrieveColor(GrayscaleGradient, x)
  ELSE retrieveColor(transformation.transformationOf, x)

\* (x - range.min) / (range.max - range.min)
Normalize(x, range) ==
  ((x - range.min) * Unit) \div (BoundValue(range.max) - range.min)

\* sample === nodata
StrictEquals(sample, nodata) ==
  IF sample = UndefinedSample THEN nodata = JsUndefined
  ELSE nodata.t = "number" /\ nodata.v = sample

\* A store into a Uint8Array.
ToUint8(v) == v % 256

\* convertTo8BitRGB with the convert function of convertSingleBandTo8BitRGB.
convertTo8BitRGB(oldRaw, opts) ==
  LET bands == IF opts.nodata = JsUndefined THEN 3 ELSE 4
  IN  [k \in 1..(Len(oldRaw) * bands) |->
         LET sample == oldRaw[((k - 1) \div bands) + 1]
             j == (k - 1) % bands
             rgb == Transformation(opts.transformation, Normalize(sample, opts.nativeRange))
         IN  IF j < 3 THEN ToUint8(rgb[j + 1])
             ELSE IF StrictEquals(sample, opts.nodata) THEN 0 ELSE 255]

convertSingleBandTo8BitRGB(samples, opts) == convertTo8BitRGB(samples, opts)

\* Math.round(rawValue * 255) of a float sample.
RoundTimes255(sample) == (sample * 255 * 2 + Unit) \div (2 * Unit)

\* convert32FloatTo8BitRGB for one sample per pixel.
convert32FloatTo8BitRGB(samples, nodata, transformation) ==
  LET nodataPresent == nodata # JsNull
      channels == IF nodataPresent THEN 4 ELSE 3
  IN  [k \in 1..(Len(samples) * channels) |->
         LET sample == samples[((k - 1) \div channels) + 1]
             j == (k - 1) % channels
             equalsNodata == nodataPresent /\ StrictEquals(sample, nodata)
             value == IF equalsNodata THEN 0 ELSE RoundTimes255(sample)
             rgb == IF transformation # JsUndefined /\ ~equalsNodata
                    THEN Transformation(transformation, sample)
                    ELSE <<value, value, value>>
         IN  IF j < 3 THEN ToUint8(rgb[j + 1])
             ELSE IF equalsNodata THEN 0 ELSE 255]

\* A store into the Uint8Array, Uint16Array or Uint32Array `multibands`;
\* 32-bit samples are taken non-negative, which the store leaves as they are.
ToTypedArray(v, bits) == IF bits = 32 THEN v ELSE v % Pow2(bits)

Divider(bits) == IF bits = 16 THEN 256 ELSE IF bits = 32 THEN 16777216 ELSE 1

BandOf(multibands, index) ==
  IF index < Len(multibands) THEN multibands[index + 1] ELSE UndefinedSample

\* bandMapping: one pixel's red, green, blue and alpha.
BandMappingAlpha(multibands, opts) ==
  LET r == BandOf(multibands, opts.bandMapping.red)
      g == BandOf(multibands, opts.bandMapping.green)
      b == BandOf(multibands, opts.bandMapping.blue)
  IN  IF ~StrictEquals(r, opts.nodata) \/ ~StrictEquals(g, opts.nodata)
           \/ ~StrictEquals(b, opts.nodata)
      THEN 255 ELSE 0

bandMappingPixel(multibands, opts) ==
  LET onUndefinedConvert(v) ==
        IF v = UndefinedSample THEN 0
        ELSE IF opts.bandMapping.rgb THEN v \div Divider(opts.bits)
        ELSE Normalize(v, opts.nativeRange)
  IN  IF opts.bandMapping.rgb
      THEN << onUndefinedConvert(BandOf(multibands, opts.bandMapping.red)),
              onUndefinedConvert(BandOf(multibands, opts.bandMapping.green)),
              onUndefinedConvert(BandOf(multibands, opts.bandMapping.blue)),
              BandMappingAlpha(multibands, opts) >>
      ELSE LET gray == BandOf(multibands, opts.bandMapping.gray)
               rgb == Transformation(opts.transformation, onUndefinedConvert(gray))
           IN  << rgb[1], rgb[2], rgb[3],
                  IF StrictEquals(gray, opts.nodata) THEN 0 ELSE 255 >>

\* convertBandsTo8BitRGB and convertStandardizedBandsTo8BitRGB.
convertBandsTo8BitRGB(samples, opts) ==
  LET bandsOut == IF opts.nodata = JsUndefined THEN 3 ELSE 4
      maxIndex == Len(samples) \div opts.bands
  IN  [k \in 1..(maxIndex * bandsOut) |->
         LET index == (k - 1) \div bandsOut
             j == (k - 1) % bandsOut
             multibands == [b \in 1..opts.bands |->
                              ToTypedArray(samples[index * opts.bands + b], opts.bits)]
         IN  ToUint8(bandMappingPixel(multibands, opts)[j + 1])]

\* ---- inputs of the converters --------------------------------------------
Samples == {-1, 0, 7, 255}
SampleArrays ==
  UNION {[1..n -> Samples] : n \in {1, 2, 4}}
ConvertNodata == {JsUndefined, JsNull, JsNumber(0), JsNumber(255), JsNumber(-1)}
ConvertRanges == {[min |-> 0, max |-> Bound(8, -1)], UserRange}
ConvertBandMappings ==
  { [red |-> 0, green |-> 0, blue |-> 0, gray |-> 1, rgb |-> FALSE],
    [red |-> 0, green |-> 1, blue |-> 1, gray |-> 0, rgb |-> TRUE] }

ConvertInputs ==
  /\ raw \in SampleArrays
  /\ \E bits \in {8, 16, 32}, nodata \in ConvertNodata, range \in ConvertRanges,
        mapping \in ConvertBandMappings, tilePixels \in {2, 4} :
       options = [bits |-> bits, nativeRange |-> range, bands |-> 2,
                  transformation |-> TransformToGradientColorMap(GrayscaleGradient),
                  bandMapping |-> mapping, nodata |-> nodata,
                  tilePixels |-> tilePixels]
  /\ options.bits = 32 => \A i \in DOMAIN raw : raw[i] >= 0
  /\ converter = "none"
  /\ converted = <<>>
  /\ StripAbsent
  /\ LevelAbsent

ConvertSingleBandTo8BitRGB ==
  /\ converter = "none"
  /\ converter' = "convertSingleBandTo8BitRGB"
  /\ converted' = convertSingleBandTo8BitRGB(raw, options)
  /\ UNCHANGED <<raw, options, stripVars, levelVars, retileVars, tileVars>>

Convert32FloatTo8BitRGB ==
  /\ converter = "none"
  /\ options.bits = 32
  /\ converter' = "convert32FloatTo8BitRGB"
  /\ converted' = convert32FloatTo8BitRGB(raw, options.nodata, options.transformation)
  /\ UNCHANGED <<raw, options, stripVars, levelVars, retileVars, tileVars>>

ConvertBandsTo8BitRGB ==
  /\ converter = "none"
  /\ Len(raw) % options.bands = 0
  /\ converter' = "convertBandsTo8BitRGB"
  /\ converted' = convertBandsTo8BitRGB(raw, options)
  /\ UNCHANGED <<raw, options, stripVars, levelVars, retileVars, tileVars>>

\* normalizeRawTypedArray: a raw array shorter than expectedLength is copied
\* into a new array of its own type and the rest filled with nodata (0 for
\* null and for undefined).
normalizeRawTypedArray(samples, expectedLength, nodata) ==
  IF Len(samples) >= expectedLength THEN samples
  ELSE [i \in 1..expectedLength |->
          IF i <= Len(samples) THEN samples[i]
          ELSE IF isNumber(nodata) THEN nodata.v ELSE 0]

\* The single-band branch of getTileData from the read result to the
\* converted buffer: options.tilePixels is tileWidth * tileHeight.
ConvertSingleBandRead ==
  /\ converter = "none"
  /\ \E float \in (IF options.bits = 32 THEN BOOLEAN ELSE {FALSE}) :
       LET padded == IF Len(raw) < options.tilePixels
                     THEN normalizeRawTypedArray(raw, options.tilePixels, options.nodata)
                     ELSE raw
       IN  /\ converter' = IF float THEN "singleBandBranchFloat32" ELSE "singleBandBranch"
           /\ converted' =
                IF float
                THEN convert32FloatTo8BitRGB(padded, options.nodata, options.transformation)
                ELSE convertSingleBandTo8BitRGB(padded, options)
  /\ UNCHANGED <<raw, options, stripVars, levelVars, retileVars, tileVars>>

\* The multiband branch of getTileData from the read result to the converted
\* buffer.
ConvertMultibandRead ==
  /\ converter = "none"
  /\ Len(raw) % options.bands = 0
  /\ LET padded == IF Len(raw) < options.tilePixels
                   THEN normalizeRawTypedArray(raw, options.tilePixels, options.nodata)
                   ELSE raw
     IN  /\ converter' = "multibandBranch"
         /\ converted' = convertBandsTo8BitRGB(padded, options)
  /\ UNCHANGED <<raw, options, stripVars, levelVars, retileVars, tileVars>>

ConvertNext ==
  \/ ConvertSingleBandTo8BitRGB
  \/ Convert32FloatTo8BitRGB
  \/ ConvertBandsTo8BitRGB
  \/ ConvertSingleBandRead
  \/ ConvertMultibandRead

\* =========================================================================
\*  Masking and edge clipping of a converted tile
\* =========================================================================
\* The side of a tile, in pixels.
StripTileSide == 2

NoTileData == [data |-> <<>>, pixelFormat |-> "none"]
NoMask == [present |-> FALSE, samples |-> <<>>]

\* The element of a typed array at a 1-based position; a read beyond the end
\* gives undefined, which a store into a Uint8Array turns into 0.
ElementOrZero(data, k) == IF k <= Len(data) THEN data[k] ELSE 0

\* data.fill(0, index * 4, index * 4 + 4) for every pixel index of `pixels`
\* (0-based); fill stops at the end of the array.
FillPixelsWithZero(data, pixels) ==
  [k \in 1..Len(data) |-> IF ((k - 1) \div 4) \in pixels THEN 0 ELSE data[k]]

convertRGBToRGBA(rgbData) ==
  [k \in 1..((Len(rgbData) * 4) \div 3) |->
     LET index == (k - 1) \div 4
         channel == (k - 1) % 4
     IN  IF channel = 3 THEN 255 ELSE ElementOrZero(rgbData, index * 3 + channel + 1)]

stripPixelsByMaskNoExpand(data, rawMaskResult, pixelFormat) ==
  IF ~rawMaskResult.present THEN [data |-> data, pixelFormat |-> pixelFormat]
  ELSE LET zeroes == {index \in 0..(Len(rawMaskResult.samples) - 1) :
                        rawMaskResult.samples[index + 1] = 0}
       IN  [data |-> FillPixelsWithZero(data, zeroes), pixelFormat |-> pixelFormat]
stripPixelsByMask(data, rawMaskResult, pixelFormat) ==
  IF ~rawMaskResult.present THEN [data |-> data, pixelFormat |-> pixelFormat]
  ELSE LET rgba == IF pixelFormat = "RGB_888" THEN convertRGBToRGBA(data) ELSE data
           format == IF pixelFormat = "RGB_888" THEN "RGBA_8888" ELSE pixelFormat
           zeroes == {index \in 0..(Len(rawMaskResult.samples) - 1) :
                        rawMaskResult.samples[index + 1] = 0}
       IN  [data |-> FillPixelsWithZero(rgba, zeroes), pixelFormat |-> format]

\* tileY, tileOffsetX and tileOffsetY as getTileData computes them.
TileYUnflipped(g) == g.tile.y
TileY(g) == g.tileRowCount - g.tile.y - 1
TileOffsetX(g) == g.tileWidth * g.tile.x
TileOffsetY(g) ==
  IF g.flipY THEN g.imageHeight - g.tileHeight * (TileY(g) + 1)
  ELSE g.tileHeight * TileY(g)

isOutsideImageNoFlip(g, px, py) ==
  \/ TileOffsetX(g) + px >= g.imageWidth
  \/ TileOffsetY(g) + py >= g.imageHeight
isOutsideImage(g, px, py) ==
  \/ TileOffsetX(g) + px >= g.imageWidth
  \/ IF g.flipY THEN TileOffsetY(g) + py < 0
     ELSE TileOffsetY(g) + py >= g.imageHeight

stripPixelsOutsideImageArea(data, pixelFormat, g) ==
  LET isLastTileInRow == g.tile.x = g.tileColumnCount - 1
      isLastTileInColumn == TileY(g) = g.tileRowCount - 1
  IN  IF isLastTileInRow \/ isLastTileInColumn
      THEN LET rgba == IF pixelFormat = "RGB_888" THEN convertRGBToRGBA(data) ELSE data
               outside == {py * g.tileWidth + px :
                             <<px, py>> \in {p \in (0..(g.tileWidth - 1)) \X (0..(g.tileHeight - 1)) :
                                               isOutsideImage(g, p[1], p[2])}}
           IN  [data |-> FillPixelsWithZero(rgba, outside),
                pixelFormat |-> IF pixelFormat = "RGB_888" THEN "RGBA_8888" ELSE pixelFormat]
      ELSE [data |-> data, pixelFormat |-> pixelFormat]

\* ---- inputs: one tile of a single-band image ------------------------------
TileGeometries ==
  { [tile |-> [x |-> x, y |-> y], flipY |-> flipY,
     tileWidth |-> StripTileSide, tileHeight |-> StripTileSide,
     imageWidth |-> w, imageHeight |-> h,
     tileColumnCount |-> CeilDiv(w, StripTileSide),
     tileRowCount |-> CeilDiv(h, StripTileSide)] :
      <<w, h, x, y, flipY>> \in
        { q \in (StripTileSide..(2 * StripTileSide)) \X (StripTileSide..(2 * StripTileSide))
                  \X (0..1) \X (0..1) \X BOOLEAN :
            q[3] < CeilDiv(q[1], StripTileSide) /\ q[4] < CeilDiv(q[2], StripTileSide) } }

TilePixels == StripTileSide * StripTileSide

RawMasks ==
  {NoMask} \cup
  { [present |-> TRUE, samples |-> [i \in 1..TilePixels |-> IF i \in zeroes THEN 0 ELSE 1]] :
      zeroes \in {{}, {2}, {1, TilePixels}} }

StripInputs ==
  /\ raw \in [1..TilePixels -> {0, 255}]
  /\ \E nodata \in {JsNull, JsNumber(0), JsNumber(255)}, format \in {"FLOAT_32", "other"} :
       options = [bits |-> IF format = "FLOAT_32" THEN 32 ELSE 8,
                  pixelFormat |-> format,
                  nativeRange |-> [min |-> 0, max |-> Bound(8, -1)],
                  transformation |-> TransformToGradientColorMap(GrayscaleGradient),
                  nodata |-> nodata]
  /\ converter = "none"
  /\ converted = <<>>
  /\ geometry \in TileGeometries
  /\ rawMask \in RawMasks
  /\ stripStage = "read"
  /\ tileData = NoTileData
  /\ masked = NoTileData
  /\ clipped = NoTileData
  /\ LevelAbsent

\* The single-band branch of getTileData up to the call of
\* clipAndMaskTilePixels: the conversion and the pixel format it labels the
\* buffer with.
ConvertTile ==
  /\ stripStage = "read"
  /\ LET float == options.bits = 32 /\ options.pixelFormat = "FLOAT_32"
         data == IF float
                 THEN convert32FloatTo8BitRGB(raw, options.nodata, options.transformation)
                 ELSE convertSingleBandTo8BitRGB(raw, options)
     IN  /\ converter' = IF float THEN "convert32FloatTo8BitRGB" ELSE "convertSingleBandTo8BitRGB"
         /\ converted' = data
         /\ tileData' = [data |-> data,
                         pixelFormat |-> IF isNumber(options.nodata) THEN "RGBA_8888" ELSE "RGB_888"]
  /\ stripStage' = "converted"
  /\ UNCHANGED <<raw, options, geometry, rawMask, masked, clipped, levelVars, retileVars, tileVars>>

StripPixelsByMask ==
  /\ stripStage = "converted"
  /\ masked' = stripPixelsByMask(tileData.data, rawMask, tileData.pixelFormat)
  /\ stripStage' = "masked"
  /\ UNCHANGED <<raw, options, converter, converted, geometry, rawMask, tileData, clipped,
                 levelVars, retileVars, tileVars>>

StripPixelsOutsideImageArea ==
  /\ stripStage = "masked"
  /\ clipped' = stripPixelsOutsideImageArea(masked.data, masked.pixelFormat, geometry)
  /\ stripStage' = "clipped"
  /\ UNCHANGED <<raw, options, converter, converted, geometry, rawMask, tileData, masked,
                 levelVars, retileVars, tileVars>>

StripNext ==
  \/ ConvertTile
  \/ StripPixelsByMask
  \/ StripPixelsOutsideImageArea

\* =========================================================================
\*  createFromURL: the enumeration of the file's images
\* =========================================================================
\* The most images a file holds.
MaxImages == 3

\* The images of a file: NewSubfileType (absent, or its bits) and the sizes
\* <<width, height, tileWidth, tileHeight>>; the second size is an image
\* stored as one tile of its own size.
ImageShapes == {<<4, 3, 2, 2>>, <<3, 3, 3, 3>>}
SubfileTypes == {JsUndefined, JsNumber(0), JsNumber(1), JsNumber(4), JsNumber(5)}
FileImage(index, subfileType, shape) ==
  [index |-> index, NewSubfileType |-> subfileType, retiled |-> FALSE,
   width |-> shape[1], height |-> shape[2],
   tileWidth |-> shape[3], tileHeight |-> shape[4]]
Files ==
  UNION { { [i \in 1..n |-> FileImage(i - 1, types[i], shapes[i])] :
              types \in [1..n -> SubfileTypes], shapes \in [1..n -> ImageShapes] } :
          n \in 1..MaxImages }

\* (newSubfileType & 0b100) !== 0; an absent tag is undefined, and
\* undefined & 4 is 0.
IsMaskBitZero(newSubfileType) ==
  IF isNumber(newSubfileType) THEN newSubfileType.v % 2 = 1 ELSE FALSE
IsMask(newSubfileType) ==
  IF isNumber(newSubfileType) THEN (newSubfileType.v \div 4) % 2 = 1 ELSE FALSE

\* new RetiledGeoTIFFImage(image)
Retiled(img) ==
  [img EXCEPT !.retiled = TRUE,
              !.tileWidth = NewTileSize(img.width, img.height),
              !.tileHeight = NewTileSize(img.width, img.height)]

\* The tile-matrix entry of an image; the level's bounds are the file's
\* bounds scaled by boundsScaleX and boundsScaleY (numerator, denominator).
TileMatrixEntry(img) ==
  LET tileColumnCount == CeilDiv(img.width, img.tileWidth)
      tileRowCount == CeilDiv(img.height, img.tileHeight)
  IN  [tileWidth |-> img.tileWidth, tileHeight |-> img.tileHeight,
       tileColumnCount |-> tileColumnCount, tileRowCount |-> tileRowCount,
       boundsScaleX |-> <<tileColumnCount * img.tileWidth, img.width>>,
       boundsScaleY |-> <<tileRowCount * img.tileHeight, img.height>>]

LevelInputs ==
  /\ fileImages \in Files
  /\ level = Len(fileImages) - 1
  /\ images = <<>>
  /\ maskImages = <<>>
  /\ tileMatrix = <<>>

\* One turn of the loop `for (let level = imageCount - 1; level >= 0; level--)`.
EnumerateLevel ==
  /\ level >= 0
  /\ LET read == fileImages[level + 1]
         img == IF read.tileWidth = read.width /\ read.tileHeight = read.height
                THEN Retiled(read) ELSE read
     IN  IF IsMask(read.NewSubfileType)
         THEN /\ maskImages' = Append(maskImages, img)
              /\ UNCHANGED <<tileMatrix, images>>
         ELSE /\ tileMatrix' = Append(tileMatrix, TileMatrixEntry(img))
              /\ images' = Append(images, img)
              /\ UNCHANGED maskImages
  /\ level' = level - 1
  /\ UNCHANGED <<fileImages, raw, options, converter, converted, stripVars,
                 retileVars, tileVars>>

LevelNext == EnumerateLevel

\* ---- specifications ------------------------------------------------------
vars == <<retileVars, tileVars, pureVars>>

\* The tile set model left out of a specification.
TileAbsent ==
  /\ image = [kind |-> CHOOSE k \in ImageKinds : k.bitsPerSample = 8 /\ k.samplesPerPixel = 1,
              gdalNoData |-> JsNull]
  /\ maskImage = Null
  /\ dataType = IMAGE
  /\ _nodata = JsUndefined
  /\ bandMapping = DefaultBandMapping
  /\ colorMap = GrayscaleGradient
  /\ nativeRange = ConstructorRange(8)
  /\ _transformation = TransformToGradientColorMap(GrayscaleGradient)
  /\ invalidateCount = 0
  /\ setterCalls = 0
  /\ lastCall = NoCall
  /\ requests = [r \in RequestIds |-> IdleRequest]
  /\ tileReads = {}
  /\ aborted = FALSE

RetileInit ==
  /\ \E size \in ImageSizes :
       /\ imageWidth = size[1]
       /\ imageHeight = size[2]
       /\ tileSize = NewTileSize(size[1], size[2])
  /\ samplesPerPixel = 2
  /\ planarConfiguration \in {1, 2}
  /\ tileCache = <<>>
  /\ callerSignal \in Signals
  /\ calls = [c \in CallIds |-> IdleCall]
  /\ rasterReads = {}
  /\ TileAbsent
  /\ PureAbsent

\* The adapter on an image whose planarConfiguration is 1, 2 or a value the
\* code has no case for.
PlanarInit ==
  /\ \E size \in ImageSizes :
       /\ imageWidth = size[1]
       /\ imageHeight = size[2]
       /\ tileSize = NewTileSize(size[1], size[2])
  /\ samplesPerPixel = 2
  /\ planarConfiguration \in {1, 2, 3}
  /\ tileCache = <<>>
  /\ callerSignal \in Signals
  /\ calls = [c \in CallIds |-> IdleCall]
  /\ rasterReads = {}
  /\ TileAbsent
  /\ PureAbsent

IndexInit ==
  /\ \E size \in IndexImageSizes :
       /\ imageWidth = size[1]
       /\ imageHeight = size[2]
       /\ tileSize = NewTileSize(size[1], size[2])
  /\ samplesPerPixel = 2
  /\ planarConfiguration \in {1, 2}
  /\ tileCache = <<>>
  /\ callerSignal \in Signals
  /\ calls = [c \in CallIds |-> IdleCall]
  /\ rasterReads = {}
  /\ TileAbsent
  /\ PureAbsent

ConvertInit == ConvertInputs /\ RetileAbsent /\ TileAbsent

StripInit == StripInputs /\ RetileAbsent /\ TileAbsent

LevelInit == LevelInputs /\ ConvertAbsent /\ StripAbsent /\ RetileAbsent /\ TileAbsent

SpecRetile == RetileInit /\ [][RetileNext]_vars
SpecPlanar == PlanarInit /\ [][RetileNext]_vars
SpecIndex == IndexInit /\ [][IndexNext]_vars
SpecTile == TileInit /\ [][TileNext]_vars
SpecConfig == ConfigInit /\ [][ConfigNext]_vars
SpecConvert == ConvertInit /\ [][ConvertNext]_vars
SpecStrip == StripInit /\ [][StripNext]_vars
SpecLevel == LevelInit /\ [][LevelNext]_vars

\* =========================================================================
\*  Claims about RetiledGeoTIFFImage
\* =========================================================================
SameArgs(a, b) == a.x = b.x /\ a.y = b.y /\ a.sample = b.sample

\* Call c starts in this step.
Starts(c) == calls[c].pc = "idle" /\ calls'[c].pc # "idle"

\* C1: once a getTileOrStrip call for (x, y, sample) has resolved, a later
\* call with the same arguments resolves with the very entry the cache holds
\* for its index, which carries the data the earlier call returned, and no
\* read of the wrapped image is issued.
C1_LaterCallIsServedFromCache ==
  [][\A c \in CallIds : \A d \in CallIds :
       (Starts(c) /\ calls[d].pc = "resolved" /\ SameArgs(calls'[c], calls[d]))
       => /\ calls'[c].pc = "resolved"
          /\ calls'[c].index \in DOMAIN tileCache
          /\ calls'[c].result = tileCache[calls'[c].index]
          /\ calls'[c].result.data = calls[d].result.data
          /\ rasterReads' = rasterReads
          /\ tileCache' = tileCache]_retileVars

\* C1 witness: call 1 resolved by a read, another tile was requested in
\* between, and call 3 with the arguments of call 1 got the cached entry.
C1_Witness ==
  /\ calls[1].pc = "resolved" /\ calls[1].result.id = 1
  /\ calls[2].pc # "idle" /\ ~SameArgs(calls[2], calls[1])
  /\ calls[3].pc = "resolved" /\ SameArgs(calls[3], calls[1])
  /\ calls[3].result.id = 1
  /\ Cardinality(rasterReads) = 2

\* The bytes of the window of tile (x, y) for the bands `bands`, pixel by
\* pixel in row order, bands interleaved.
TileBytes(x, y, bands) ==
  LET n == Len(bands)
  IN  [i \in 1..(tileSize * tileSize * n) |->
         PixelValue(x * tileSize + (((i - 1) \div n) % tileSize),
                    y * tileSize + (((i - 1) \div n) \div tileSize),
                    bands[((i - 1) % n) + 1]) % 256]

AllBands == [i \in 1..samplesPerPixel |-> i - 1]
ColumnsCount == (imageWidth + tileSize - 1) \div tileSize
RowsCount == (imageHeight + tileSize - 1) \div tileSize

\* The data the window of (x, y, sample) holds: every band when chunky, the
\* band `sample` when planar.
ExpectedData(x, y, sample) ==
  IF planarConfiguration = 1 THEN TileBytes(x, y, AllBands)
  ELSE TileBytes(x, y, <<sample>>)

\* The data an index stands for.
ExpectedDataOfIndex(i) ==
  LET inPlane == i % (ColumnsCount * RowsCount)
  IN  ExpectedData(inPlane % ColumnsCount, inPlane \div ColumnsCount,
                   i \div (ColumnsCount * RowsCount))

\* C2: under every interleaving of getTileOrStrip calls, every resolved call
\* holds the data of the window of its (x, y) and every cache entry holds
\* the data of its index's window.
C2_RacesNeverGiveWrongData ==
  /\ \A c \in CallIds : calls[c].pc = "resolved"
        => calls[c].result.data = ExpectedData(calls[c].x, calls[c].y, calls[c].sample)
  /\ \A i \in DOMAIN tileCache : tileCache[i].data = ExpectedDataOfIndex(i)

\* C2 witness: two calls for the same tile were both reading (a race), both
\* resolved, and a call for another tile resolved as well.
C2_Witness ==
  /\ calls[1].pc = "resolved" /\ calls[1].result.id = 1
  /\ calls[2].pc = "resolved" /\ calls[2].result.id = 2
  /\ calls[1].index = calls[2].index
  /\ calls[3].pc = "resolved" /\ calls[3].index # calls[1].index

\* C3: when the read of a call rejects, the call rejects, the cache is left
\* as it was, and a call for a tile that has no entry issues a new read.
C3_FailedReadIsNotCached ==
  [][/\ \A c \in CallIds :
          (c \in {rd.call : rd \in rasterReads} /\ ReadOf(c).status = "pending"
             /\ \E rd \in rasterReads' : rd.call = c /\ rd.status = "rejected")
          => /\ calls'[c].pc = "rejected"
             /\ calls'[c].result = NoTile
             /\ tileCache' = tileCache
     /\ \A c \in CallIds : \A d \in CallIds :
          (Starts(c) /\ calls[d].pc = "rejected" /\ SameArgs(calls'[c], calls[d])
             /\ calls'[c].index \notin DOMAIN tileCache)
          => /\ calls'[c].pc = "reading"
             /\ \E rd \in rasterReads' \ rasterReads :
                  rd.call = c /\ rd.window = TileWindow(calls'[c].x, calls'[c].y)
    ]_retileVars

\* C3 witness: a call rejected, a later call for the same tile read again
\* and resolved, and the cache holds that later call's tile.
C3_Witness ==
  /\ calls[1].pc = "rejected"
  /\ calls[2].pc = "resolved" /\ SameArgs(calls[2], calls[1])
  /\ calls[2].result.id = 2
  /\ DOMAIN tileCache = {calls[1].index}

\* C4 as claimed: an entry, once stored, is never replaced or removed.
C4_EntryNeverReplaced ==
  [][\A i \in DOMAIN tileCache :
       i \in DOMAIN tileCache' /\ tileCache'[i] = tileCache[i]]_retileVars

\* C4 as amended: an index that has an entry keeps an entry for ever, and
\* the entry's tile coordinates and data never change (the entry object may
\* be replaced by an equivalent one when a redundant read resolves).
C4_EntryDataNeverChanges ==
  [][\A i \in DOMAIN tileCache :
       /\ i \in DOMAIN tileCache'
       /\ tileCache'[i].data = tileCache[i].data
       /\ tileCache'[i].x = tileCache[i].x
       /\ tileCache'[i].y = tileCache[i].y]_retileVars

\* C4 witness: the tile a call stored has been replaced by the tile of a
\* redundant read for the same index.
C4_Witness ==
  \E c \in CallIds :
    /\ calls[c].pc = "resolved" /\ calls[c].result.id = c
    /\ tileCache[calls[c].index].id # c

\* C5: the synthetic index is y * columnsCount + x when chunky and
\* sample * columnsCount * rowsCount + y * columnsCount + x when planar, with
\* columnsCount = ceil(width / tileSize) and rowsCount = ceil(height / tileSize).
C5_SyntheticIndex ==
  \A c \in CallIds : calls[c].pc # "idle" =>
    calls[c].index =
      IF planarConfiguration = 1
      THEN calls[c].y * ColumnsCount + calls[c].x
      ELSE calls[c].sample * ColumnsCount * RowsCount
             + calls[c].y * ColumnsCount + calls[c].x

\* C5 witness: 4 columns, chunky, tile (2, 1) has index 6.
C5_Witness ==
  /\ ColumnsCount = 4 /\ planarConfiguration = 1
  /\ calls[1].pc # "idle" /\ calls[1].x = 2 /\ calls[1].y = 1
  /\ calls[1].index = 6

\* =========================================================================
\*  Claims about getTileData and the setters
\* =========================================================================
Settled(r) == requests[r].pc \in {"success", "error", "unhandled"}

\* C6: in every branch, when the raster read or the mask read of a request
\* fails, onError is invoked exactly once with the request's tile and the
\* error, onSuccess is never invoked, and no read is issued a second time.
C6_ReadFailureReachesOnError ==
  \A r \in RequestIds :
    (requests[r].rejection # Null /\ Settled(r))
    => /\ requests[r].onError = << <<TileOf(r), requests[r].rejection>> >>
       /\ requests[r].onSuccess = 0
       /\ \A rd1 \in ReadsOf(r) : \A rd2 \in ReadsOf(r) : rd1.of = rd2.of => rd1 = rd2

\* A combination no conversion path covers: an ELEVATION model on one band
\* whose format is neither FLOAT_32 nor UINT_32, or several bands of a bit
\* depth other than 8, 16 and 32.
UnsupportedFormat ==
  \/ /\ dataType = ELEVATION
     /\ image.kind.samplesPerPixel = 1
     /\ analyzePixelFormat(image.kind).format \notin {"FLOAT_32", "UINT_32"}
  \/ /\ image.kind.samplesPerPixel > 1
     /\ analyzePixelFormat(image.kind).meaning = "Multiband"
     /\ image.kind.bitsPerSample \notin {8, 16, 32}

\* C7: a request for a tile of an unsupported format ends with onError; it
\* is not thrown out of getTileData, not dropped, and onSuccess is not invoked.
C7_UnsupportedFormatReachesOnError ==
  UnsupportedFormat =>
    \A r \in RequestIds :
      /\ requests[r].pc # "thrown"
      /\ requests[r].pc # "unhandled"
      /\ requests[r].onSuccess = 0
      /\ Settled(r) => Len(requests[r].onError) = 1

ReadStatus(r, of) ==
  IF \E rd \in ReadsOf(r) : rd.of = of
  THEN (CHOOSE rd \in ReadsOf(r) : rd.of = of).status
  ELSE "absent"

\* The raster and the mask read of r were issued, and conversion and
\* onSuccess, if they happened, found both fulfilled.
BothReadsJoined(r) ==
  /\ ReadStatus(r, "raster") # "absent"
  /\ ReadStatus(r, "mask") # "absent"
  /\ (requests[r].onSuccess > 0 \/ requests[r].used # NoUse)
       => /\ ReadStatus(r, "raster") = "fulfilled"
          /\ ReadStatus(r, "mask") = "fulfilled"

\* C8 as claimed: every request of a level with a mask image that
\* getTileData took on issues the raster read and the mask read together and
\* converts and calls onSuccess only when both are fulfilled.
C8_EveryRequestJoinsBothReads ==
  maskImage # Null =>
    \A r \in RequestIds : requests[r].pc \notin {"idle", "thrown"} => BothReadsJoined(r)

\* C8 as amended: every request of a level with a mask image that an image
\* branch (single-band, multi-band, RGB) handles issues the raster read and
\* the mask read together and converts and calls onSuccess only when both
\* are fulfilled; the elevation branch reads no mask.
C8_ImageRequestJoinsBothReads ==
  maskImage # Null =>
    \A r \in RequestIds :
      (requests[r].pc # "idle" /\ requests[r].branch \in {"singleband", "multiband", "rgb"})
      => BothReadsJoined(r)

\* C8 witness: with a mask image, request 1 succeeded in an image branch
\* and request 2 waits with its raster in hand and its mask still pending.
C8_Witness ==
  /\ maskImage # Null
  /\ requests[1].pc = "success" /\ requests[1].branch = "singleband"
  /\ requests[2].pc = "waiting"
  /\ ReadStatus(2, "raster") = "fulfilled" /\ ReadStatus(2, "mask") = "pending"

\* C9: every read of a request carries the request's token, and a request
\* whose reads have all delivered runs to onSuccess, aborted token or not.
C9_TokenPassedAndCompletionNotCancelled ==
  /\ \A rd \in tileReads : rd.signal = requests[rd.req].signal
  /\ \A r \in RequestIds :
       (Settled(r) /\ \A rd \in ReadsOf(r) : rd.status = "fulfilled")
       => requests[r].onSuccess = 1

\* The nodata value a request made with the snapshot works with.
NodataOf(snapshot) ==
  IF snapshot.nodata # JsUndefined THEN snapshot.nodata ELSE image.gdalNoData

\* The getters after a setter call return what the call installs, and the
\* colour function is the one of the installed colour map.
GetterReturnsNewValue(call) ==
  /\ call.op = "setNodata" => getNodata' = call.arg
  /\ call.op = "setBandMapping" =>
       getBandMapping' = IF call.arg # JsNull THEN call.arg ELSE DefaultBandMapping
  /\ call.op = "setGradient" =>
       IF call.arg # JsNull
       THEN /\ getGradient'.colorMap = call.arg.colorMap
            /\ _transformation' = TransformToGradientColorMap(call.arg.colorMap)
            /\ getGradient'.range = IF call.arg.range # JsUndefined THEN call.arg.range
                                    ELSE getGradient.range
       ELSE /\ getGradient'.colorMap = GrayscaleGradient
            /\ _transformation' = TransformToGradientColorMap(GrayscaleGradient)

\* The conversion of r was given the values of the snapshot wherever its
\* branch takes them.
ConvertedWith(r, used, snapshot) ==
  LET branch == requests[r].branch
      float == _bitsPerSample = 32 /\ _pixelFormat = "FLOAT_32"
  IN  /\ used.nodata = NodataOf(snapshot)
      /\ ~requests[r].stale =>
           /\ branch \in {"singleband", "multiband"}
                => used.transformation = snapshot.transformation
           /\ (branch = "multiband" \/ (branch = "singleband" /\ ~float))
                => used.nativeRange = snapshot.nativeRange
           /\ branch = "multiband" => used.bandMapping = snapshot.bandMapping

\* The stop list of a colour map starts at 0, ends at 1 and ascends.
WellFormedStopList(cm) ==
  LET levels == StopLevels(cm)
  IN  /\ levels[1] = 0
      /\ levels[Len(levels)] = 10000
      /\ \A i \in 1..(Len(levels) - 1) : levels[i] <= levels[i + 1]

\* C10: when a setter returns, its getter returns the new value and
\* invalidate() has been called once, or not at all when the invalidate
\* argument is false; a tile requested afterwards is converted with the
\* values the getters returned when it was requested, unless a setter has
\* been called again in between.
C10_SettersTakeEffect ==
  [][/\ (setterCalls' = setterCalls + 1 /\ lastCall'.op # "setGradientThrew")
          => /\ GetterReturnsNewValue(lastCall')
             /\ invalidateCount' = invalidateCount + (IF lastCall'.invalidate THEN 1 ELSE 0)
     /\ \A r \in RequestIds :
          (requests[r].pc = "waiting" /\ requests'[r].pc = "success")
          => ConvertedWith(r, requests'[r].used, requests[r].atRequest)
    ]_vars

\* C10 witness: setNodata(7, false) after a call that invalidated; a
\* multiband tile requested afterwards succeeded and was converted with 7.
C10_Witness ==
  /\ setterCalls = 2 /\ invalidateCount = 1
  /\ lastCall = [op |-> "setNodata", arg |-> JsNumber(7), invalidate |-> FALSE]
  /\ getNodata = JsNumber(7)
  /\ requests[1].pc = "success" /\ requests[1].branch = "multiband"
  /\ requests[1].atRequest.nodata = JsNumber(7)
  /\ requests[1].used.nodata = JsNumber(7)
  /\ requests[1].used.transformation = TransformToGradientColorMap("RainbowGradient")

\* C11: setGradient with an ill-formed stop list is rejected synchronously
\* and leaves the gradient as it was: getGradient() returns the previous
\* colorMap and range and the colour function of the conversions is the
\* previous one.
C11_IllFormedGradientIsRejected ==
  [][(setterCalls' = setterCalls + 1
        /\ lastCall'.op \in {"setGradient", "setGradientThrew"}
        /\ lastCall'.arg # JsNull
        /\ ~WellFormedStopList(lastCall'.arg.colorMap))
     => /\ lastCall'.op = "setGradientThrew"
        /\ getGradient' = getGradient
        /\ _transformation' = _transformation
    ]_vars

\* C12: the red, green, blue and gray indices of the active band mapping
\* are always smaller than the samplesPerPixel of the raster, and a call of
\* setBandMapping with a larger index leaves the previous mapping active.
C12_BandIndicesWithinSamples ==
  [][/\ \A band \in {"red", "green", "blue", "gray"} :
          getBandMapping'[band] < image.kind.samplesPerPixel
     /\ (lastCall'.op = "setBandMapping" /\ setterCalls' = setterCalls + 1
           /\ lastCall'.arg # JsNull
           /\ \E band \in {"red", "green", "blue", "gray"} :
                lastCall'.arg[band] >= image.kind.samplesPerPixel)
        => getBandMapping' = getBandMapping
    ]_vars

\* C13: while no range has been supplied, after construction and after
\* setGradient(null), getGradient() reports {min: 0, max: 2^bitsPerSample - 1}.
C13_DefaultRangeIsAllOnes ==
  [][/\ setterCalls = 0
          => getGradient.range = [min |-> 0, max |-> Bound(image.kind.bitsPerSample, -1)]
     /\ (setterCalls' = setterCalls + 1 /\ lastCall'.op = "setGradient"
           /\ lastCall'.arg = JsNull)
          => getGradient'.range = [min |-> 0, max |-> Bound(image.kind.bitsPerSample, -1)]
    ]_vars

\* ---- claims on the converters --------------------------------------------
\* The pixels of the converted buffer and the samples they were made from.
PixelCount == IF converter = "convertBandsTo8BitRGB" THEN Len(raw) \div options.bands ELSE Len(raw)
SingleBand == converter \in {"convertSingleBandTo8BitRGB", "convert32FloatTo8BitRGB"}
NodataConfigured == isNumber(options.nodata)
SampleOf(pixel) == raw[pixel]
BandSampleOf(pixel, band) == raw[(pixel - 1) * options.bands + band + 1]
AlphaOf(pixel) == converted[4 * pixel]
ColourOf(pixel) == <<converted[4 * pixel - 3], converted[4 * pixel - 2], converted[4 * pixel - 1]>>

\* C14: the single-band converters return pixelCount * 4 bytes when a nodata
\* value is configured and pixelCount * 3 bytes when none is; the multi-band
\* converter always returns pixelCount * 4 bytes.
C14_OutputLength ==
  /\ SingleBand =>
       Len(converted) = PixelCount * (IF NodataConfigured THEN 4 ELSE 3)
  /\ converter = "convertBandsTo8BitRGB" => Len(converted) = PixelCount * 4

\* C15: with a nodata value configured, in single-band conversion and in
\* gray-mapped multi-band conversion a pixel has alpha 0 when its sample (its
\* gray band) equals the nodata value and alpha 255 when it differs.
C15_NodataSampleIsTransparent ==
  /\ (SingleBand /\ NodataConfigured) =>
       \A pixel \in 1..PixelCount :
         AlphaOf(pixel) = IF SampleOf(pixel) = options.nodata.v THEN 0 ELSE 255
  /\ (converter = "convertBandsTo8BitRGB" /\ NodataConfigured /\ ~options.bandMapping.rgb) =>
       \A pixel \in 1..PixelCount :
         AlphaOf(pixel) =
           IF BandSampleOf(pixel, options.bandMapping.gray) = options.nodata.v THEN 0 ELSE 255

\* C16: in single-band integer conversion with a nodata value configured, a
\* pixel whose sample equals nodata is emitted as (0, 0, 0) with alpha 0, and
\* any other pixel with the gradient's colour of its normalized value and
\* alpha 255.
C16_NodataPixelIsBlack ==
  (converter = "convertSingleBandTo8BitRGB" /\ NodataConfigured) =>
    \A pixel \in 1..PixelCount :
      IF SampleOf(pixel) = options.nodata.v
      THEN ColourOf(pixel) = <<0, 0, 0>> /\ AlphaOf(pixel) = 0
      ELSE /\ ColourOf(pixel) =
                Transformation(options.transformation,
                               Normalize(SampleOf(pixel), options.nativeRange))
           /\ AlphaOf(pixel) = 255

\* C17: in multi-band RGB-direct conversion a pixel has alpha 255 when none
\* of its red, green and blue bands equals the nodata value and alpha 0 when
\* any of them does.
C17_AnyNodataBandIsTransparent ==
  (converter = "convertBandsTo8BitRGB" /\ NodataConfigured /\ options.bandMapping.rgb) =>
    \A pixel \in 1..PixelCount :
      AlphaOf(pixel) =
        IF \E band \in {options.bandMapping.red, options.bandMapping.green,
                        options.bandMapping.blue} :
             BandSampleOf(pixel, band) = options.nodata.v
        THEN 0 ELSE 255


\* ---- claims on masking and edge clipping ----------------------------------
\* The bytes of a pixel (0-based index) of a buffer of the given pixel format;
\* -1 stands for a byte the buffer does not have.
ByteAt(data, k) == IF k <= Len(data) THEN data[k] ELSE -1
RGBOfPixel(buffer, index) ==
  LET channels == IF buffer.pixelFormat = "RGB_888" THEN 3 ELSE 4
  IN  [c \in 1..3 |-> ByteAt(buffer.data, index * channels + c)]
RGBAOfPixel(buffer, index) ==
  RGBOfPixel(buffer, index) \o
    << IF buffer.pixelFormat = "RGB_888" THEN 255 ELSE ByteAt(buffer.data, index * 4 + 4) >>
TilePixelIndices == 0..(TilePixels - 1)

\* C18: with a mask, an RGB_888 buffer is expanded to RGBA_8888 with alpha
\* 255, every pixel whose mask sample is 0 becomes (0, 0, 0, 0) and every
\* other pixel keeps its bytes; without a mask the buffer and its pixel
\* format are returned unchanged.
C18_MaskApplication ==
  stripStage \in {"masked", "clipped"} =>
    IF ~rawMask.present THEN masked = tileData
    ELSE /\ masked.pixelFormat = "RGBA_8888"
         /\ \A index \in TilePixelIndices :
              RGBAOfPixel(masked, index) =
                IF rawMask.samples[index + 1] = 0 THEN <<0, 0, 0, 0>>
                ELSE RGBAOfPixel(tileData, index)

\* The absolute raster coordinate of a pixel of the tile, and whether it is
\* outside the image.
OutsideRaster(px, py) ==
  LET absX == geometry.tileWidth * geometry.tile.x + px
      row == geometry.tileRowCount - geometry.tile.y - 1
      absY == IF geometry.flipY
              THEN geometry.imageHeight - geometry.tileHeight * (row + 1) + py
              ELSE geometry.tileHeight * row + py
  IN  ~(0 <= absX /\ absX < geometry.imageWidth /\ 0 <= absY /\ absY < geometry.imageHeight)
EdgeTile ==
  \/ geometry.tile.x = geometry.tileColumnCount - 1
  \/ geometry.tileRowCount - geometry.tile.y - 1 = geometry.tileRowCount - 1

\* C19: edge clipping turns a pixel into (0, 0, 0, 0) exactly when the tile
\* is in the last column or last row and the pixel is outside the raster;
\* every other pixel of an edge tile keeps its colour, and the buffer of a
\* tile in neither the last column nor the last row is returned unchanged.
C19_EdgeClipping ==
  stripStage = "clipped" =>
    IF ~EdgeTile THEN clipped = masked
    ELSE \A px \in 0..(geometry.tileWidth - 1), py \in 0..(geometry.tileHeight - 1) :
           LET index == py * geometry.tileWidth + px
           IN  IF OutsideRaster(px, py)
               THEN RGBAOfPixel(clipped, index) = <<0, 0, 0, 0>>
               ELSE RGBAOfPixel(clipped, index) = RGBAOfPixel(masked, index)


\* A 3-bytes-per-pixel RGB_888 buffer has been masked: one pixel with a colour
\* was under a zero mask sample, another under a non-zero one.
C18_Witness ==
  /\ stripStage = "masked"
  /\ rawMask.present
  /\ tileData.pixelFormat = "RGB_888"
  /\ Len(tileData.data) = 3 * TilePixels
  /\ masked.pixelFormat = "RGBA_8888"
  /\ \E index \in TilePixelIndices :
       /\ rawMask.samples[index + 1] = 0
       /\ RGBOfPixel(tileData, index) # <<0, 0, 0>>
       /\ RGBAOfPixel(masked, index) = <<0, 0, 0, 0>>
  /\ \E index \in TilePixelIndices :
       /\ rawMask.samples[index + 1] # 0
       /\ RGBOfPixel(masked, index) # <<0, 0, 0>>

\* An RGB_888 tile of the last column and last row of a flipped (CRS:1) grid
\* has been clipped: one coloured pixel was outside the raster, another inside.
C19_Witness ==
  /\ stripStage = "clipped"
  /\ EdgeTile
  /\ geometry.flipY
  /\ masked.pixelFormat = "RGB_888"
  /\ Len(masked.data) = 3 * TilePixels
  /\ clipped.pixelFormat = "RGBA_8888"
  /\ \E px \in 0..(geometry.tileWidth - 1), py \in 0..(geometry.tileHeight - 1) :
       /\ OutsideRaster(px, py)
       /\ RGBOfPixel(masked, py * geometry.tileWidth + px) # <<0, 0, 0>>
       /\ RGBAOfPixel(clipped, py * geometry.tileWidth + px) = <<0, 0, 0, 0>>
  /\ \E px \in 0..(geometry.tileWidth - 1), py \in 0..(geometry.tileHeight - 1) :
       /\ ~OutsideRaster(px, py)
       /\ RGBOfPixel(clipped, py * geometry.tileWidth + px) # <<0, 0, 0>>


\* ---- claims on the level enumeration --------------------------------------
\* The images the loop has read so far (0-based file indices), and those of
\* them whose NewSubfileType has bit 2 set.
ReadImages == {i \in 0..(Len(fileImages) - 1) : i > level}
HasMaskBit(i) ==
  LET type == fileImages[i + 1].NewSubfileType
  IN  type.t = "number" /\ (type.v \div 4) % 2 = 1
PositionsOf(collection, i) == {k \in 1..Len(collection) : collection[k].index = i}

\* C20: every image with bit 2 of NewSubfileType set is in the mask
\* collection and has no tile-matrix entry; every other image is in the
\* primary collection once, with its tile-matrix entry at the same position;
\* tileMatrix and images have the same length, the number of non-mask images.
C20_LevelsArePartitioned ==
  /\ Len(tileMatrix) = Len(images)
  /\ Len(images) = Cardinality({i \in ReadImages : ~HasMaskBit(i)})
  /\ Len(maskImages) = Cardinality({i \in ReadImages : HasMaskBit(i)})
  /\ \A i \in ReadImages :
       IF HasMaskBit(i)
       THEN /\ Cardinality(PositionsOf(maskImages, i)) = 1
            /\ PositionsOf(images, i) = {}
       ELSE /\ PositionsOf(maskImages, i) = {}
            /\ Cardinality(PositionsOf(images, i)) = 1
            /\ \A k \in PositionsOf(images, i) :
                 /\ tileMatrix[k].tileWidth = images[k].tileWidth
                 /\ tileMatrix[k].tileHeight = images[k].tileHeight
                 /\ tileMatrix[k].tileColumnCount * images[k].tileWidth >= images[k].width
                 /\ (tileMatrix[k].tileColumnCount - 1) * images[k].tileWidth < images[k].width
                 /\ tileMatrix[k].tileRowCount * images[k].tileHeight >= images[k].height
                 /\ (tileMatrix[k].tileRowCount - 1) * images[k].tileHeight < images[k].height

\* A file of three images whose image 2 is a mask has been enumerated: two
\* tile-matrix entries and one mask.
C20_Witness ==
  /\ Len(fileImages) = 3
  /\ level = -1
  /\ HasMaskBit(2) /\ ~HasMaskBit(1) /\ ~HasMaskBit(0)
  /\ Len(tileMatrix) = 2
  /\ Len(images) = 2
  /\ Len(maskImages) = 1
  /\ maskImages[1].index = 2


\* ---- claims on the pairing of masks with levels ---------------------------
\* A file as writers of masked pyramids lay it out: every mask image directly
\* follows the image it is the validity mask of and has its width and height.
MaskFollowsItsImage ==
  \A i \in 1..Len(fileImages) :
    HasMaskBit(i - 1) =>
      /\ i > 1
      /\ ~HasMaskBit(i - 2)
      /\ fileImages[i].width = fileImages[i - 1].width
      /\ fileImages[i].height = fileImages[i - 1].height

\* C21: for every level k at which getTileData finds a mask image
\* (maskImages[k] is defined), that image has the width and height of
\* images[k].
C21_MaskBelongsToItsLevel ==
  (level = -1 /\ MaskFollowsItsImage) =>
    \A k \in 1..Len(maskImages) :
      k <= Len(images) =>
        /\ maskImages[k].width = images[k].width
        /\ maskImages[k].height = images[k].height


\* ---- claims on analyzePixelFormat ------------------------------------------
\* C22: whenever the pixel meaning of the model's image is Multiband or
\* Unknown its pixel format is undetermined (null); a determined pixel format
\* comes only with the meanings Grayscale16, Grayscale32, RGB and RGBA.
C22_FormatOnlyWithKnownMeaning ==
  LET analysed == analyzePixelFormat(image.kind)
  IN  /\ analysed.meaning \in {"Multiband", "Unknown"} => analysed.format = Null
      /\ analysed.format # Null =>
           analysed.meaning \in {"Grayscale16", "Grayscale32", "RGB", "RGBA"}


\* ---- claims on short raw buffers -------------------------------------------
\* The sample count a tile is expected to have, and the read result extended
\* to it with the nodata value (0 when none).
ExpectedSamples ==
  IF converter = "multibandBranch" THEN options.tilePixels * options.bands
  ELSE options.tilePixels
PaddedRaw ==
  IF Len(raw) >= ExpectedSamples THEN raw
  ELSE raw \o [i \in 1..(ExpectedSamples - Len(raw)) |->
                 IF NodataConfigured THEN options.nodata.v ELSE 0]

\* C23: a read result shorter than the tile's expected sample count
\* (tileWidth * tileHeight, times the bands for a multi-band image) is
\* extended to that count with nodata (0 when none) and converted so; a read
\* result that is long enough is converted as it is.
C23_ShortRawIsPadded ==
  /\ converter = "singleBandBranch" =>
       converted = convertSingleBandTo8BitRGB(PaddedRaw, options)
  /\ converter = "singleBandBranchFloat32" =>
       converted = convert32FloatTo8BitRGB(PaddedRaw, options.nodata, options.transformation)
  /\ converter = "multibandBranch" =>
       converted = convertBandsTo8BitRGB(PaddedRaw, options)


\* ---- claims on the synthesized tile size ------------------------------------
PowersOfTwoUpTo512 == {Pow2(k) : k \in 0..9}

\* C24: the tile size of a RetiledGeoTIFFImage is the largest power of two
\* that is at most 512, at most the width and at most the height of the
\* wrapped image, and getTileWidth and getTileHeight both return it.
C24_TileSizeIsLargestPowerOfTwo ==
  /\ tileSize \in PowersOfTwoUpTo512
  /\ tileSize <= imageWidth /\ tileSize <= imageHeight
  /\ \A p \in PowersOfTwoUpTo512 :
       (p <= imageWidth /\ p <= imageHeight) => p <= tileSize
  /\ getTileWidth = tileSize /\ getTileHeight = tileSize

\* An image larger than 1024 pixels both ways is tiled at 512 and has served
\* a tile.
C24_Witness ==
  /\ calls[1].pc # "idle"
  /\ imageWidth = 1100 /\ imageHeight = 2100
  /\ tileSize = 512


\* ---- claims on the configuration a tile is converted with -------------------
\* The conversion of r was given the values of the snapshot, each one its
\* branch takes.
AllTakenFrom(r, used, snapshot) ==
  LET branch == requests[r].branch
      float == _bitsPerSample = 32 /\ _pixelFormat = "FLOAT_32"
  IN  /\ used.nodata = NodataOf(snapshot)
      /\ branch \in {"singleband", "multiband"}
           => used.transformation = snapshot.transformation
      /\ (branch = "multiband" \/ (branch = "singleband" /\ ~float))
           => used.nativeRange = snapshot.nativeRange
      /\ branch = "multiband" => used.bandMapping = snapshot.bandMapping

\* C25: the gradient, native range, band mapping and nodata value a tile is
\* converted with are either all the values active when the tile was
\* requested or all the values active when its reads completed.
C25_OneConfigurationPerTile ==
  [][\A r \in RequestIds :
       (requests[r].pc = "waiting" /\ requests'[r].pc = "success")
       => \/ AllTakenFrom(r, requests'[r].used, requests[r].atRequest)
          \/ AllTakenFrom(r, requests'[r].used, Snapshot)
    ]_vars


\* ---- claims on the delivered buffer --------------------------------------
\* C26: the buffer delivered to onSuccess by an image branch has
\* tileWidth * tileHeight * bytes-per-pixel bytes, 3 for RGB_888 and 4 for
\* RGBA_8888, for every nodata setting and with or without a mask.
C26_BufferLengthMatchesFormat ==
  stripStage = "clipped" =>
    /\ clipped.pixelFormat \in {"RGB_888", "RGBA_8888"}
    /\ Len(clipped.data) =
         geometry.tileWidth * geometry.tileHeight
           * (IF clipped.pixelFormat = "RGB_888" THEN 3 ELSE 4)


\* ---- claims on the callbacks of a request ------------------------------------
\* C27: over the life of a request at most one of onSuccess and onError is
\* invoked, and at most once, also when the onSuccess callback throws.
C27_AtMostOneCallback ==
  \A r \in RequestIds : requests[r].onSuccess + Len(requests[r].onError) <= 1


C29_BufferKeepsEverySample ==
  \A i \in DOMAIN tileCache :
    LET tile == tileCache[i]
        samples == FirstArray(readRasters(TileWindow(tile.x, tile.y),
                                          ReadSamples(tile.sample), ReadInterleave))
    IN  /\ Len(tile.data) = Len(samples) * 2
        /\ \A k \in 1..Len(samples) :
             samples[k] = tile.data[2 * k - 1] + 256 * tile.data[2 * k]


\* ---- claim on the tiles the clip skips ------------------------------------
\* The clip is skipped: the tile is not in the last column and its flipped
\* row index is not the last row.
ClipSkipped ==
  /\ geometry.tile.x # geometry.tileColumnCount - 1
  /\ TileY(geometry) # geometry.tileRowCount - 1

\* C30: with tileColumnCount = ceil(width / tileWidth) and tileRowCount =
\* ceil(height / tileHeight), and for both values of flipY, every pixel of a
\* tile on which the clip is skipped lies inside the raster, so no delivered
\* buffer has a non-transparent pixel outside the raster.
C30_SkippedTilesAreInside ==
  /\ geometry.tileColumnCount = CeilDiv(geometry.imageWidth, geometry.tileWidth)
  /\ geometry.tileRowCount = CeilDiv(geometry.imageHeight, geometry.tileHeight)
  /\ ClipSkipped =>
       \A px \in 0..(geometry.tileWidth - 1), py \in 0..(geometry.tileHeight - 1) :
         ~OutsideRaster(px, py)
  /\ stripStage = "clipped" =>
       /\ ClipSkipped => clipped = masked
       /\ \A px \in 0..(geometry.tileWidth - 1), py \in 0..(geometry.tileHeight - 1) :
            OutsideRaster(px, py) =>
              RGBAOfPixel(clipped, py * geometry.tileWidth + px) = <<0, 0, 0, 0>>

\* A tile of a flipped (CRS:1) grid whose image is not a whole number of
\* tiles was delivered without the clip, with a coloured pixel in it.
C30_Witness ==
  /\ stripStage = "clipped"
  /\ ClipSkipped
  /\ geometry.flipY
  /\ geometry.imageWidth % geometry.tileWidth # 0
  /\ geometry.imageHeight % geometry.tileHeight # 0
  /\ clipped = masked
  /\ \E index \in TilePixelIndices : RGBOfPixel(clipped, index) # <<0, 0, 0>>

\* The same on a grid that is not flipped.
C30_WitnessUnflipped ==
  /\ stripStage = "clipped"
  /\ ClipSkipped
  /\ ~geometry.flipY
  /\ geometry.imageHeight % geometry.tileHeight # 0
  /\ \E index \in TilePixelIndices : RGBOfPixel(clipped, index) # <<0, 0, 0>>

====
